---- MODULE Spec2Model ----
(***************************************************************************)
(* A model of node-mongodb-s3-backup: the command-line entry point         *)
(* (bin/mongodb_s3_backup.js) and the backup pipeline (sync and the steps  *)
(* it chains with async.series).                                           *)
(*                                                                         *)
(* JavaScript strings are sequences of one-character strings, so that      *)
(* split, Number, util.format and join are modelled by what they do.       *)
(* undefined is the one-element sequence <<"undefined">>, which is no      *)
(* string of characters.                                                   *)
(***************************************************************************)
EXTENDS Integers, Sequences, FiniteSets, TLC

(***************************************************************************)
(* Bounds of the model.                                                    *)
(***************************************************************************)
\* sync invocations followed in one process (cron matches in recurring mode)
MaxRuns == 2
\* the runs of a process whose termination is checked
MaxLiveRuns == 1
\* a scaled-down calendar: milliseconds per day, days per month, months per year
TicksPerDay == 2
DaysPerMonth == 2
MonthsPerYear == 2

Runs == 1..MaxRuns

(***************************************************************************)
(* Strings.                                                                *)
(***************************************************************************)
Undefined == <<"undefined">>

DigitChar == <<"0", "1", "2", "3", "4", "5", "6", "7", "8", "9">>

Str_0_0_star == <<"0", " ", "0", " ", "*", " ", "*", " ", "*">>

Str_star_tail == <<" ", "*", " ", "*", " ", "*">>

Str_NewYork == <<"America/New_York">>

Str_targz == <<".tar.gz">>

\* JavaScript truthiness of a string-or-undefined value
Truthy(v) == v # Undefined /\ v # << >>

DigitVal(c) == (CHOOSE i \in 1..Len(DigitChar) : DigitChar[i] = c) - 1

\* String(n) for a non-negative integer
RECURSIVE ToStr(_)
ToStr(n) == IF n < Len(DigitChar) THEN <<DigitChar[n + 1]>>
            ELSE ToStr(n \div Len(DigitChar)) \o <<DigitChar[(n % Len(DigitChar)) + 1]>>

\* Number(s) for a string of decimal digits (Number("") is 0)
RECURSIVE NumberOf(_)
NumberOf(s) == IF s = << >> THEN 0
               ELSE NumberOf(SubSeq(s, 1, Len(s) - 1)) * Len(DigitChar) + DigitVal(s[Len(s)])

\* s.split(sep) for a one-character separator
RECURSIVE Split(_, _)
Split(s, sep) ==
    IF \E i \in 1..Len(s) : s[i] = sep
    THEN LET i == CHOOSE j \in 1..Len(s) : s[j] = sep /\ \A k \in 1..(j - 1) : s[k] # sep
         IN  <<SubSeq(s, 1, i - 1)>> \o Split(SubSeq(s, i + 1, Len(s)), sep)
    ELSE <<s>>

\* parts.join(sep)
RECURSIVE Join(_, _)
Join(parts, sep) ==
    IF parts = << >> THEN << >>
    ELSE IF Len(parts) = 1 THEN parts[1]
    ELSE parts[1] \o <<sep>> \o Join(Tail(parts), sep)

\* util.format('%d', x) for a string of digits x
FormatD(x) == ToStr(NumberOf(x))

(***************************************************************************)
(* Configuration and schedule resolution (bin/mongodb_s3_backup.js).       *)
(***************************************************************************)
Hours == 0..23
Minutes == 0..59

Pad2(n) == IF n < Len(DigitChar) THEN <<"0">> \o ToStr(n) ELSE ToStr(n)

\* the daily time "H:MM" of a configuration file
TimeStr(h, m) == ToStr(h) \o <<":">> \o Pad2(m)

\* the zero-padded spelling "HH:MM"
TimeStrPadded(h, m) == Pad2(h) \o <<":">> \o Pad2(m)

ExplicitCrontab == <<"3", "0", " ", "2", " ", "*", " ", "*", " ", "1">>

ExplicitTimezone == <<"Europe/Paris">>

Config(hasCron, crontab, time, timezone) ==
    [hasCron |-> hasCron, crontab |-> crontab, time |-> time, timezone |-> timezone]

ConfigsOver(times) ==
    {Config(FALSE, Undefined, Undefined, Undefined)} \cup
    {Config(TRUE, c, t, z) : c \in {Undefined, << >>, ExplicitCrontab},
                             t \in {Undefined, << >>} \cup times,
                             z \in {Undefined, << >>, ExplicitTimezone}}

AllTimes == {TimeStr(h, m) : h \in Hours, m \in Minutes}
              \cup {TimeStrPadded(h, m) : h \in Hours, m \in Minutes}

\* time = config.cron.time.split(':'); util.format('%d %d * * *', time[0], time[1])
DeriveCrontab(timeString) ==
    LET time == Split(timeString, ":")
    IN  FormatD(time[1]) \o <<" ">> \o FormatD(time[2]) \o Str_star_tail

ResolveCrontabSwapped(cfg) ==
    IF cfg.hasCron
    THEN IF Truthy(cfg.time) THEN DeriveCrontab(cfg.time)
         ELSE IF Truthy(cfg.crontab) THEN cfg.crontab
         ELSE Str_0_0_star
    ELSE Str_0_0_star

\* the crontab handed to new cronJob
ResolveCrontab(cfg) ==
    IF cfg.hasCron
    THEN IF Truthy(cfg.crontab) THEN cfg.crontab
         ELSE IF Truthy(cfg.time) THEN DeriveCrontab(cfg.time)
         ELSE Str_0_0_star
    ELSE Str_0_0_star

\* the timezone handed to new cronJob
ResolveTimezone(cfg) ==
    IF cfg.hasCron /\ Truthy(cfg.timezone) THEN cfg.timezone ELSE Str_NewYork

\* require('time') is attempted only when a timezone is configured
NeedsTimeModule(cfg) == cfg.hasCron /\ Truthy(cfg.timezone)

\* The cron package reads a five-field expression as
\* minute, hour, day of month, month, day of week.
CronFields(expr) == Split(expr, " ")
CronMinute(expr) == CronFields(expr)[1]
CronHour(expr) == CronFields(expr)[2]
CronEveryDay(expr) ==
    /\ Len(CronFields(expr)) = 5
    /\ \A i \in 3..5 : CronFields(expr)[i] = <<"*">>

(***************************************************************************)
(* The state.                                                              *)
(***************************************************************************)
VARIABLES
    optNow,          \* options.now: the --now flag
    config,          \* config.cron, as loaded from the configuration file
    timeInstalled,   \* whether require('time') succeeds
    proc,            \* "start", "running", "exited" (process.exit), "crashed" (uncaught)
    exitCode,        \* the code given to process.exit, -1 before it is called
    crontab,         \* the variable crontab of the script
    timezone,        \* the variable timezone of the script
    cronRegistered,  \* whether new cronJob(...) was executed
    now,             \* the clock, in milliseconds
    nruns,           \* number of sync invocations so far
    run,             \* per invocation of sync: position, archive name, callback record
    dumpDir,         \* backupDir = tmpDir/<db>: its state and the run that wrote it
    archives,        \* the archive files under tmpDir
    arg,             \* the argument of a helper function called on its own
    ret              \* << >> before that call, <<its result>> after it

vars == <<optNow, config, timeInstalled, proc, exitCode, crontab, timezone,
          cronRegistered, now, nruns, run, dumpDir, archives, arg, ret>>

\* what neither the script nor the pipeline changes
envVars == <<optNow, config, timeInstalled, arg, ret>>
cronVars == <<crontab, timezone, cronRegistered>>

(***************************************************************************)
(* getArchiveName (part_000:17-30) over a scaled-down calendar.            *)
(***************************************************************************)
EpochYear == 1970

DatabaseName == <<"d", "b">>

DayIndex(t) == t \div TicksPerDay
getDate(t) == (DayIndex(t) % DaysPerMonth) + 1
getMonth(t) == (DayIndex(t) \div DaysPerMonth) % MonthsPerYear
getFullYear(t) == EpochYear + (DayIndex(t) \div (DaysPerMonth * MonthsPerYear))
getTime(t) == t

\* the documented format database_YYYY_MM_DD.tar.gz
getArchiveNameDaily(databaseName, t) ==
    Join(<<databaseName, ToStr(getFullYear(t)), ToStr(getMonth(t) + 1),
           ToStr(getDate(t))>>, "_") \o Str_targz

getArchiveName(databaseName, t) ==
    Join(<<databaseName, ToStr(getFullYear(t)), ToStr(getMonth(t) + 1),
           ToStr(getDate(t)), ToStr(getTime(t))>>, "_") \o Str_targz

(***************************************************************************)
(* Errors handed to callbacks.  step is the index of the task in the       *)
(* series, cause names the source line that built the error.               *)
(***************************************************************************)
NoError == [step |-> 0, cause |-> "null", code |-> 0]
\* an error whose message ends with a code (an exit code, a status code)
ErrWith(k, cause, code) == [step |-> k, cause |-> cause, code |-> code]
Err(k, cause) == ErrWith(k, cause, 0)

\* the nonzero exit code of a failed child process
ExitFailure == 1

HttpOk == 200
BadStatuses == {500}

(***************************************************************************)
(* The file system under tmpDir.                                           *)
(***************************************************************************)
NoDir == [state |-> "absent", owner |-> 0]
Written(state, r) == [state |-> state, owner |-> r]

\* the archive run r makes of backupDir in state dd: its name, its writer, and
\* whether it holds the complete dump of that same run
ArchiveFile(name, r, dd) ==
    [name |-> name, by |-> r, ownComplete |-> dd.owner = r /\ dd.state = "complete"]

ArchiveExists(ar, name) == \E a \in ar : a.name = name
RemoveArchive(ar, name) == {a \in ar : a.name # name}
WriteArchive(ar, file) == RemoveArchive(ar, file.name) \cup {file}

\* the local artifacts of a run that exist in file system (dd, ar)
Artifacts(dd, ar, name) ==
    (IF dd.state # "absent" THEN {"dumpDir"} ELSE {}) \cup
    (IF ArchiveExists(ar, name) THEN {"archive"} ELSE {})

(***************************************************************************)
(* sync (part_000:228-252): the series of tasks and async.series.          *)
(***************************************************************************)
TasksNoArchiveClean ==
    <<"rmDump", "rmArchive", "dump", "compress", "upload", "rmDump", "rmDump">>

Tasks == <<"rmDump", "rmArchive", "dump", "compress", "upload", "rmDump", "rmArchive">>

\* the pending operation right after a task is invoked
StartPc(task) ==
    CASE task \in {"rmDump", "rmArchive"} -> "exists"
      [] task = "dump" -> "dump"
      [] task = "compress" -> "tar"
      [] task = "upload" -> "put"

SeriesContinuesAnyway(k, err) == k < Len(Tasks)

\* async.series invokes task k+1 when task k called back without an error
SeriesContinues(k, err) == err = NoError /\ k < Len(Tasks)

\* process.exit(err ? 1 : 0)
ExitCodeFor(err) == IF err # NoError THEN 1 ELSE 0

\* a run with an operation pending
Active(rec) == rec.pc \in {"exists", "rm", "dump", "dumping", "tar", "stat", "put", "res"}

IdleRun ==
    [pc |-> "idle", step |-> 0, archiveName |-> << >>, status |-> 0, intact |-> TRUE,
     invoked |-> {}, failedAt |-> 0, failErr |-> NoError, artAtFail |-> {},
     cbCount |-> 0, cbErr |-> NoError, artAtCb |-> {}, uploaded |-> {},
     overlapped |-> FALSE,
     \* history: the steps that called back, in order
     completed |-> << >>,
     \* history: tar's exit code (-1: none yet), fs.stat called back, 'end' emitted
     tarCode |-> -1, statDone |-> FALSE, ended |-> FALSE]

\* history: a run is overlapped once another run is active while it is
MarkOverlap(f) ==
    [q \in Runs |-> [f[q] EXCEPT !.overlapped =
        @ \/ (Active(f[q]) /\ \E p \in Runs \ {q} : Active(f[p]))]]

AfterTaskDropsError(rec, err, dd, ar) ==
    LET k == rec.step
        called == [rec EXCEPT !.completed = Append(@, k)]
        failed == IF err = NoError THEN called
                  ELSE [called EXCEPT !.failedAt = k, !.failErr = err,
                                      !.artAtFail = Artifacts(dd, ar, rec.archiveName)]
    IN  IF SeriesContinues(k, err)
        THEN [failed EXCEPT !.step = k + 1, !.pc = StartPc(Tasks[k + 1]),
                            !.invoked = @ \cup {k + 1}, !.intact = TRUE]
        ELSE [failed EXCEPT !.step = 0, !.pc = "done",
                            !.cbCount = @ + 1, !.cbErr = NoError,
                            !.artAtCb = Artifacts(dd, ar, rec.archiveName)]

AfterTaskRetries(rec, err, dd, ar) ==
    LET k == rec.step
        called == [rec EXCEPT !.completed = Append(@, k)]
    IN  IF err # NoError
        THEN [rec EXCEPT !.pc = StartPc(Tasks[k])]
        ELSE IF SeriesContinues(k, err)
        THEN [called EXCEPT !.step = k + 1, !.pc = StartPc(Tasks[k + 1]),
                            !.invoked = @ \cup {k + 1}, !.intact = TRUE]
        ELSE [called EXCEPT !.step = 0, !.pc = "done",
                            !.cbCount = @ + 1, !.cbErr = err,
                            !.artAtCb = Artifacts(dd, ar, rec.archiveName)]

\* the record of run r after its current task called back with err,
\* the file system being (dd, ar) at that moment
AfterTask(rec, err, dd, ar) ==
    LET k == rec.step
        called == [rec EXCEPT !.completed = Append(@, k)]
        failed == IF err = NoError THEN called
                  ELSE [called EXCEPT !.failedAt = k, !.failErr = err,
                                      !.artAtFail = Artifacts(dd, ar, rec.archiveName)]
    IN  IF SeriesContinues(k, err)
        THEN [failed EXCEPT !.step = k + 1, !.pc = StartPc(Tasks[k + 1]),
                            !.invoked = @ \cup {k + 1}, !.intact = TRUE]
        ELSE [failed EXCEPT !.step = 0, !.pc = "done",
                            !.cbCount = @ + 1, !.cbErr = err,
                            !.artAtCb = Artifacts(dd, ar, rec.archiveName)]

\* Task `step` of run r calls back with err; base is run with the task's own
\* bookkeeping applied and (dd, ar) the file system the task leaves.
TaskCallback(r, err, base, dd, ar) ==
    LET rec == AfterTask(base[r], err, dd, ar)
    IN  /\ run' = MarkOverlap([base EXCEPT ![r] = rec])
        /\ dumpDir' = dd
        /\ archives' = ar
        /\ IF rec.pc = "done" /\ optNow
           THEN proc' = "exited" /\ exitCode' = ExitCodeFor(err)
           ELSE UNCHANGED <<proc, exitCode>>
        /\ UNCHANGED <<envVars, cronVars, now, nruns>>

SyncStartParallel(r, t) ==
    run' = MarkOverlap([run EXCEPT ![r] =
              [IdleRun EXCEPT !.pc = StartPc(Tasks[1]), !.step = 1,
                              !.invoked = 1..Len(Tasks),
                              !.archiveName = getArchiveName(DatabaseName, t)]])

\* sync(mongodbConfig, s3Config, callback) at clock t, as invocation r
SyncStart(r, t) ==
    run' = MarkOverlap([run EXCEPT ![r] =
              [IdleRun EXCEPT !.pc = StartPc(Tasks[1]), !.step = 1, !.invoked = {1},
                              !.archiveName = getArchiveName(DatabaseName, t)]])

(***************************************************************************)
(* friendlyFilesize (part_000:109-124).  The operands of << are 32-bit      *)
(* integers and the shift count is taken modulo 32.                        *)
(***************************************************************************)
RECURSIVE Pow2(_)
Pow2(k) == IF k = 0 THEN 1 ELSE 2 * Pow2(k - 1)

\* a << k
Shl32(a, k) == a * Pow2(k % 32)

\* (bytes / divisor).toFixed(1) for a power of two divisor = 2^e, in tenths:
\* the quotient is exact and toFixed rounds the half up
Tenths(bytes, e) ==
    LET q    == bytes \div Pow2(e)
        r    == bytes % Pow2(e)
        s    == IF e > 10 THEN e - 10 ELSE 0
        r1   == r \div Pow2(s)
        r0   == r % Pow2(s)
        twen == 20 * r1 + ((20 * r0) \div Pow2(s))
    IN  10 * q + ((twen + Pow2(e - s)) \div (2 * Pow2(e - s)))

\* the rendering of a number of tenths with one decimal, followed by a unit
Fixed1(tenths, unit) ==
    ToStr(tenths \div 10) \o <<".">> \o ToStr(tenths % 10) \o <<" ", unit>>

\* the exponent e of a power of two 2^e
Log2(p) == CHOOSE e \in 0..30 : Pow2(e) = p

friendlyFilesize(bytes) ==
    IF bytes = 0 THEN <<"0", " ", "B">>
    ELSE IF bytes < Shl32(1, 10) THEN ToStr(bytes) \o <<" ", "B">>
    ELSE IF bytes < Shl32(1, 20) THEN Fixed1(Tenths(bytes, Log2(Shl32(1, 10))), "KiB")
    ELSE IF bytes < Shl32(1, 30) THEN Fixed1(Tenths(bytes, Log2(Shl32(1, 20))), "MiB")
    ELSE IF bytes < Shl32(1, 40) THEN Fixed1(Tenths(bytes, Log2(Shl32(1, 30))), "GiB")
    ELSE Fixed1(Tenths(bytes, Log2(Shl32(1, 40))), "TiB")

\* file sizes around every threshold the function computes or documents
Sizes ==
    0..16 \cup {1536}
      \cup {Pow2(k) + d : k \in {8, 10, 20, 30}, d \in -8..8}
      \cup {Pow2(k) + Pow2(k - 1) : k \in {10, 20, 30}}

(***************************************************************************)
(* The arguments mongoDump passes to mongodump (part_000:66-78).           *)
(***************************************************************************)
Str_dash_h == <<"-", "h">>
Str_dash_d == <<"-", "d">>
Str_dash_o == <<"-", "o">>
Str_dash_u == <<"-", "u">>
Str_dash_p == <<"-", "p">>

\* the connection arguments, without credentials
ConnectionOptions(options, directory) ==
    << Str_dash_h, options.host \o <<":">> \o ToStr(options.port),
       Str_dash_d, options.db,
       Str_dash_o, directory >>

mongoOptionsEither(options, directory) ==
    ConnectionOptions(options, directory) \o
        IF Truthy(options.username) \/ Truthy(options.password)
        THEN <<Str_dash_u, options.username, Str_dash_p, options.password>>
        ELSE << >>

mongoOptions(options, directory) ==
    ConnectionOptions(options, directory) \o
        IF Truthy(options.username) /\ Truthy(options.password)
        THEN <<Str_dash_u, options.username, Str_dash_p, options.password>>
        ELSE << >>

\* config.mongodb: credentials absent, empty, plain, or looking like a flag
Credentials == {Undefined, << >>, <<"s">>, Str_dash_u, Str_dash_p}

MongoConfigs ==
    [host : {<<"h">>, <<"m", "1">>}, port : {27017, 5},
     db : {DatabaseName}, username : Credentials, password : Credentials]

\* backupDir = tmpDir/<db>
BackupDirOf(options) == <<"t", "/">> \o options.db

(***************************************************************************)
(* removeRF as a function of the file system (part_000:39-49).  A file     *)
(* system is the set of the paths that exist; a path is the sequence of    *)
(* its components.                                                         *)
(***************************************************************************)
Path_backupDir == <<"t", "db">>
Path_dumpFile  == <<"t", "db", "c">>
Path_archive   == <<"t", "a">>
Paths == {Path_backupDir, Path_dumpFile, Path_archive}

\* path p is target or lies under it
Under(target, p) ==
    Len(p) >= Len(target) /\ SubSeq(p, 1, Len(target)) = target

\* the file systems: what exists has its parent directory
FileSystems == {fs \in SUBSET Paths : Path_dumpFile \in fs => Path_backupDir \in fs}

\* rm -rf target: it removes target and all under it, or fails and leaves
\* everything, or fails after it removed what lies under target
RmOutcomes == {"ok", "kept", "partial"}
RmRF(fs, target, outcome) ==
    CASE outcome = "ok"      -> {p \in fs : ~Under(target, p)}
      [] outcome = "kept"    -> fs
      [] outcome = "partial" -> {p \in fs : p = target \/ ~Under(target, p)}

\* the callback's error, the file system left, and whether rm was executed
removeRFAlways(fs, target, outcome) ==
    [fs    |-> RmRF(fs, target, outcome),
     err   |-> IF outcome = "ok" THEN NoError ELSE Err(0, "rm"),
     execd |-> TRUE]

removeRF(fs, target, outcome) ==
    IF target \notin fs
    THEN [fs |-> fs, err |-> NoError, execd |-> FALSE]
    ELSE [fs    |-> RmRF(fs, target, outcome),
          err   |-> IF outcome = "ok" THEN NoError ELSE Err(0, "rm"),
          execd |-> TRUE]

\* two calls in a row on the same target, the second on what the first left
RemovalCalls ==
    [fs : FileSystems, target : Paths, first : RmOutcomes, second : RmOutcomes]

removeRFTwice(call) ==
    LET once == removeRF(call.fs, call.target, call.first)
    IN  [once |-> once, twice |-> removeRF(once.fs, call.target, call.second)]

(***************************************************************************)
(* The script bin/mongodb_s3_backup.js, from the loaded configuration on.  *)
(***************************************************************************)
\* if(options.now) backup.sync(..., function(err) { process.exit(err ? 1 : 0) })
MainNow ==
    /\ proc = "start" /\ optNow
    /\ proc' = "running"
    /\ nruns' = 1
    /\ SyncStart(1, now)
    /\ UNCHANGED <<envVars, cronVars, exitCode, now, dumpDir, archives>>

\* require('time') throws: process.exit(1) before any cron job is created
MainTimezoneMissing ==
    /\ proc = "start" /\ ~optNow
    /\ NeedsTimeModule(config) /\ ~timeInstalled
    /\ crontab' = ResolveCrontab(config)
    /\ proc' = "exited"
    /\ exitCode' = 1
    /\ UNCHANGED <<envVars, timezone, cronRegistered, now, nruns, run, dumpDir, archives>>

\* new cronJob(crontab, function(){ backup.sync(...) }, null, true, timezone)
MainSchedule ==
    /\ proc = "start" /\ ~optNow
    /\ NeedsTimeModule(config) => timeInstalled
    /\ crontab' = ResolveCrontab(config)
    /\ timezone' = ResolveTimezone(config)
    /\ cronRegistered' = TRUE
    /\ proc' = "running"
    /\ UNCHANGED <<envVars, exitCode, now, nruns, run, dumpDir, archives>>

CronTickUnlessBusy ==
    /\ proc = "running" /\ cronRegistered
    /\ nruns < MaxRuns
    /\ \A q \in Runs : ~Active(run[q])
    /\ now' = now + 1
    /\ nruns' = nruns + 1
    /\ SyncStart(nruns + 1, now + 1)
    /\ UNCHANGED <<envVars, cronVars, proc, exitCode, dumpDir, archives>>

\* a cron match, later than the previous one (the clock has advanced by a
\* tick): the job calls sync
CronTick ==
    /\ proc = "running" /\ cronRegistered
    /\ nruns < MaxRuns
    /\ now' = now + 1
    /\ nruns' = nruns + 1
    /\ SyncStart(nruns + 1, now + 1)
    /\ UNCHANGED <<envVars, cronVars, proc, exitCode, dumpDir, archives>>

(***************************************************************************)
(* removeRF (part_000:39-49).                                              *)
(***************************************************************************)
TargetExists(r) ==
    IF Tasks[run[r].step] = "rmDump" THEN dumpDir.state # "absent"
    ELSE ArchiveExists(archives, run[r].archiveName)

\* a removal of backupDir tears the dump of every run that is writing it
TornBy(r, f) ==
    [q \in Runs |-> IF q # r /\ f[q].pc \in {"dump", "dumping"} THEN [f[q] EXCEPT !.intact = FALSE]
                    ELSE f[q]]

\* fs.exists calls back
ExistsCb(r) ==
    /\ proc = "running" /\ run[r].pc = "exists"
    /\ IF ~TargetExists(r)
       THEN TaskCallback(r, NoError, run, dumpDir, archives)
       ELSE /\ run' = [run EXCEPT ![r].pc = "rm"]
            /\ UNCHANGED <<envVars, cronVars, proc, exitCode, now, nruns, dumpDir, archives>>

\* exec('rm -rf ' + target) calls back without an error: the target is gone
RmOk(r) ==
    /\ proc = "running" /\ run[r].pc = "rm"
    /\ IF Tasks[run[r].step] = "rmDump"
       THEN TaskCallback(r, NoError, TornBy(r, run), NoDir, archives)
       ELSE TaskCallback(r, NoError, run, dumpDir,
                         RemoveArchive(archives, run[r].archiveName))

\* exec('rm -rf ' + target) calls back with an error
RmFail(r) ==
    /\ proc = "running" /\ run[r].pc = "rm"
    /\ TaskCallback(r, Err(run[r].step, "rm"), run, dumpDir, archives)

(***************************************************************************)
(* mongoDump (part_000:60-99).                                             *)
(***************************************************************************)
\* mongodump.stdout 'data': the dump is being written into backupDir
DumpData(r) ==
    /\ proc = "running" /\ run[r].pc \in {"dump", "dumping"}
    /\ run[r].pc = "dumping" => dumpDir # Written("partial", r)
    /\ dumpDir' = Written("partial", r)
    /\ run' = [TornBy(r, run) EXCEPT ![r].pc = "dumping"]
    /\ UNCHANGED <<envVars, cronVars, proc, exitCode, now, nruns, archives>>

\* mongodump 'exit' with code 0
DumpExitZero(r) ==
    /\ proc = "running" /\ run[r].pc \in {"dump", "dumping"}
    /\ TaskCallback(r, NoError, TornBy(r, run),
                    Written(IF run[r].intact THEN "complete" ELSE "partial", r), archives)

\* mongodump 'exit' with a nonzero code
DumpExitNonzero(r) ==
    /\ proc = "running" /\ run[r].pc \in {"dump", "dumping"}
    /\ TaskCallback(r, ErrWith(run[r].step, "mongodump", ExitFailure), run, dumpDir, archives)

(***************************************************************************)
(* A child process that cannot be started emits 'error' and no 'exit'.     *)
(* Neither spawn site registers an 'error' listener, so the event is       *)
(* thrown as an uncaught exception and the process terminates.             *)
(***************************************************************************)
SpawnError(r) ==
    /\ proc = "running" /\ run[r].pc \in {"dump", "tar"}
    /\ proc' = "crashed"
    /\ UNCHANGED <<envVars, cronVars, exitCode, now, nruns, run, dumpDir, archives>>

(***************************************************************************)
(* compressDirectory (part_000:136-166).                                   *)
(***************************************************************************)
\* tar 'exit' with code 0: the archive holds what backupDir holds; fs.stat is called
TarExitZero(r) ==
    /\ proc = "running" /\ run[r].pc = "tar"
    /\ dumpDir.state # "absent"
    /\ archives' = WriteArchive(archives, ArchiveFile(run[r].archiveName, r, dumpDir))
    /\ run' = [run EXCEPT ![r].pc = "stat", ![r].tarCode = 0]
    /\ UNCHANGED <<envVars, cronVars, proc, exitCode, now, nruns, dumpDir>>

\* tar 'exit' with a nonzero code, a truncated archive left behind or not
TarExitNonzero(r, left) ==
    /\ proc = "running" /\ run[r].pc = "tar"
    /\ TaskCallback(r, ErrWith(run[r].step, "tar", ExitFailure),
                    [run EXCEPT ![r].tarCode = ExitFailure], dumpDir,
                    IF left
                    THEN WriteArchive(archives,
                            ArchiveFile(run[r].archiveName, r, Written("partial", dumpDir.owner)))
                    ELSE archives)

\* what compressDirectory reports once fs.stat called back with statErr
AfterStatFailsOnError(statErr) ==
    IF statErr THEN [step |-> 4, cause |-> "stat", code |-> 0] ELSE NoError

AfterStat(statErr) == NoError

\* size = (!err) ? stats.size : 0
StatSize(statErr, size) == IF ~statErr THEN size ELSE 0

\* fs.stat calls back, with an error or with stats: the size is only logged
StatCb(r, statErr) ==
    /\ proc = "running" /\ run[r].pc = "stat"
    /\ TaskCallback(r, AfterStat(statErr), [run EXCEPT ![r].statDone = TRUE],
                    dumpDir, archives)

(***************************************************************************)
(* sendToS3 (part_000:178-216).                                            *)
(***************************************************************************)
\* putFile calls back with an error
PutError(r) ==
    /\ proc = "running" /\ run[r].pc = "put"
    /\ TaskCallback(r, Err(run[r].step, "putFile"), run, dumpDir, archives)

\* putFile calls back with a response of the given status
PutResponse(r, statusCode) ==
    /\ proc = "running" /\ run[r].pc = "put"
    /\ ArchiveExists(archives, run[r].archiveName)
    /\ run' = [run EXCEPT ![r].pc = "res", ![r].status = statusCode,
                          ![r].uploaded = {a \in archives : a.name = run[r].archiveName}]
    /\ UNCHANGED <<envVars, cronVars, proc, exitCode, now, nruns, dumpDir, archives>>

ResEndIgnoresStatus(r) ==
    /\ proc = "running" /\ run[r].pc = "res"
    /\ TaskCallback(r, NoError, [run EXCEPT ![r].ended = TRUE], dumpDir, archives)

\* res 'end'
ResEnd(r) ==
    /\ proc = "running" /\ run[r].pc = "res"
    /\ IF run[r].status # HttpOk
       THEN TaskCallback(r, ErrWith(run[r].step, "status", run[r].status),
                         [run EXCEPT ![r].ended = TRUE], dumpDir, archives)
       ELSE TaskCallback(r, NoError, [run EXCEPT ![r].ended = TRUE], dumpDir, archives)

\* the response is cut ('aborted'/'close'): 'end' is never emitted
ResCut(r) ==
    /\ proc = "running" /\ run[r].pc = "res"
    /\ run' = MarkOverlap([run EXCEPT ![r].pc = "cut"])
    /\ UNCHANGED <<envVars, cronVars, proc, exitCode, now, nruns, dumpDir, archives>>

(***************************************************************************)
(* With --now no timer is registered: once no operation is pending and     *)
(* process.exit was not reached, the event loop is empty and node ends the *)
(* process with code 0.                                                    *)
(***************************************************************************)
EventLoopEmpty ==
    /\ proc = "running" /\ ~cronRegistered
    /\ \A r \in Runs : ~Active(run[r])
    /\ proc' = "exited"
    /\ exitCode' = 0
    /\ UNCHANGED <<envVars, cronVars, now, nruns, run, dumpDir, archives>>

(***************************************************************************)
(* Specifications.                                                         *)
(***************************************************************************)
InitWith(configs, flags) ==
    /\ optNow \in flags
    /\ config \in configs
    /\ timeInstalled \in BOOLEAN
    /\ arg = << >>
    /\ ret = << >>
    /\ proc = "start"
    /\ exitCode = -1
    /\ crontab = Str_0_0_star
    /\ timezone = Str_NewYork
    /\ cronRegistered = FALSE
    /\ now = 1
    /\ nruns = 0
    /\ run = [r \in Runs |-> IdleRun]
    /\ dumpDir \in {NoDir, Written("complete", 0)}
    /\ archives = {}

Init == InitWith({Config(TRUE, Undefined, TimeStr(14, 5), ExplicitTimezone)}, BOOLEAN)

\* the steps of the runs in progress, and the end of an idle process
RunSteps ==
    \/ \E r \in Runs : ExistsCb(r)
    \/ \E r \in Runs : RmOk(r)
    \/ \E r \in Runs : RmFail(r)
    \/ \E r \in Runs : DumpData(r)
    \/ \E r \in Runs : DumpExitZero(r)
    \/ \E r \in Runs : DumpExitNonzero(r)
    \/ \E r \in Runs : SpawnError(r)
    \/ \E r \in Runs : TarExitZero(r)
    \/ \E r \in Runs, left \in BOOLEAN : TarExitNonzero(r, left)
    \/ \E r \in Runs, statErr \in BOOLEAN : StatCb(r, statErr)
    \/ \E r \in Runs : PutError(r)
    \/ \E r \in Runs, s \in {HttpOk} \cup BadStatuses : PutResponse(r, s)
    \/ \E r \in Runs : ResEnd(r)
    \/ \E r \in Runs : ResCut(r)
    \/ EventLoopEmpty

Next ==
    \/ MainNow
    \/ MainTimezoneMissing
    \/ MainSchedule
    \/ CronTick
    \/ RunSteps

Spec == Init /\ [][Next]_vars

\* Every external operation reports completion unless something prevents it:
\* fs.exists and rm call back, a started child process emits 'exit', putFile
\* calls back, a response that is not cut emits 'end', and node ends a
\* process whose event loop is empty.
Completes(r) ==
    /\ WF_vars(ExistsCb(r))
    /\ WF_vars(RmOk(r) \/ RmFail(r))
    /\ WF_vars(DumpExitZero(r) \/ DumpExitNonzero(r))
    /\ WF_vars(TarExitZero(r) \/ \E left \in BOOLEAN : TarExitNonzero(r, left))
    /\ WF_vars(\E statErr \in BOOLEAN : StatCb(r, statErr))
    /\ WF_vars(PutError(r) \/ \E s \in {HttpOk} \cup BadStatuses : PutResponse(r, s))
    /\ WF_vars(ResEnd(r))

\* a cron match among the first MaxLiveRuns
CronTickLive == nruns < MaxLiveRuns /\ CronTick

NextLive ==
    \/ MainNow
    \/ MainTimezoneMissing
    \/ MainSchedule
    \/ CronTickLive
    \/ RunSteps

SpecLive ==
    Init /\ [][NextLive]_vars /\ WF_vars(EventLoopEmpty) /\ \A r \in Runs : Completes(r)

\* a helper function called on its own, on each argument of inputs
InitCall(inputs) ==
    /\ arg \in inputs
    /\ ret = << >>
    /\ optNow = FALSE
    /\ config = Config(FALSE, Undefined, Undefined, Undefined)
    /\ timeInstalled = FALSE
    /\ proc = "start"
    /\ exitCode = -1
    /\ crontab = Str_0_0_star
    /\ timezone = Str_NewYork
    /\ cronRegistered = FALSE
    /\ now = 0
    /\ nruns = 0
    /\ run = [r \in Runs |-> IdleRun]
    /\ dumpDir = NoDir
    /\ archives = {}

\* the call returns
Return(value) ==
    /\ ret = << >>
    /\ ret' = <<value>>
    /\ UNCHANGED <<optNow, config, timeInstalled, arg, proc, exitCode, cronVars,
                   now, nruns, run, dumpDir, archives>>

\* the schedule resolution alone, over every daily time
InitSchedule == InitWith(ConfigsOver(AllTimes), {FALSE})

NextSchedule == MainTimezoneMissing \/ MainSchedule

SpecSchedule == InitSchedule /\ [][NextSchedule]_vars

\* friendlyFilesize alone
CallFriendlyFilesize == Return(friendlyFilesize(arg))

InitFilesize == InitCall(Sizes)

SpecFilesize == InitFilesize /\ [][CallFriendlyFilesize]_vars

\* the argument list of mongodump alone
CallMongoOptions == Return(mongoOptions(arg, BackupDirOf(arg)))

InitMongoOptions == InitCall(MongoConfigs)

SpecMongoOptions == InitMongoOptions /\ [][CallMongoOptions]_vars

\* removeRF alone, called twice in a row
CallRemoveRFTwice == Return(removeRFTwice(arg))

InitRemoveRF == InitCall(RemovalCalls)

SpecRemoveRF == InitRemoveRF /\ [][CallRemoveRFTwice]_vars

(***************************************************************************)
(* Properties.                                                              *)
(***************************************************************************)
Started(r) == run[r].pc # "idle"
Failed(r) == run[r].failedAt # 0
Succeeded(r) == run[r].cbCount >= 1 /\ run[r].cbErr = NoError
Solo(r) == ~run[r].overlapped

\* the tasks that produce and ship the backup, and the two post-clean removals
MainTasks == {k \in 1..Len(Tasks) : Tasks[k] \in {"dump", "compress", "upload"}}
PostClean == {k \in 1..Len(Tasks) : \A j \in MainTasks : k > j}

\* C1: when task k of a run reports failure, no task after k is invoked in
\* that run and the terminal callback receives the error of task k.
C1_FirstFailureAborts ==
    \A r \in Runs :
        Failed(r) =>
            /\ \A j \in run[r].invoked : j <= run[r].failedAt
            /\ run[r].cbCount = 1
            /\ run[r].cbErr = run[r].failErr
            /\ run[r].cbErr.step = run[r].failedAt

C1_Witness ==
    \E r \in Runs :
        /\ run[r].failedAt = 3
        /\ run[r].invoked = 1..3
        /\ run[r].cbErr = ErrWith(3, "mongodump", ExitFailure)

\* C2: in a run that no other run overlaps, a failed dump, compression or
\* upload invokes neither post-clean removal, and every artifact on disk when
\* the task failed is on disk when the terminal callback is delivered (and
\* stays there until another run starts).  A post-clean removal is invoked
\* only after an upload that answered 200.
C2_FailureKeepsArtifacts ==
    \A r \in Runs :
        /\ (run[r].invoked \cap PostClean # {}) =>
               (run[r].status = HttpOk /\ run[r].failedAt \notin MainTasks)
        /\ (Solo(r) /\ run[r].failedAt \in MainTasks) =>
               /\ run[r].invoked \cap PostClean = {}
               /\ run[r].cbCount = 1
               /\ run[r].artAtFail \subseteq run[r].artAtCb
               /\ \/ run[r].artAtFail \subseteq
                        Artifacts(dumpDir, archives, run[r].archiveName)
                  \/ \E q \in Runs \ {r} : Started(q)

C2_Witness ==
    \E r \in Runs :
        /\ Solo(r)
        /\ run[r].failedAt \in MainTasks
        /\ Tasks[run[r].failedAt] = "upload"
        /\ run[r].cbCount = 1
        /\ run[r].artAtFail = {"dumpDir", "archive"}
        /\ dumpDir.state # "absent"
        /\ ArchiveExists(archives, run[r].archiveName)

\* C3: in a run that no other run overlaps, a terminal callback without error
\* means the upload answered 200 and neither backupDir nor the run's archive
\* exists at that moment.
C3_SuccessMeansUploadedAndClean ==
    \A r \in Runs :
        (Solo(r) /\ Succeeded(r)) =>
            /\ run[r].status = HttpOk
            /\ run[r].uploaded # {}
            /\ run[r].artAtCb = {}

C3_Witness ==
    \E r \in Runs :
        /\ Solo(r) /\ Succeeded(r)
        /\ run[r].invoked = 1..Len(Tasks)
        /\ run[r].status = HttpOk
        /\ dumpDir = NoDir
        /\ ~ArchiveExists(archives, run[r].archiveName)

\* C4: the terminal callback of a run is never invoked twice, and once no
\* operation of the run is pending any more (whatever the outcome of each
\* task) it has been invoked once.
C4_ExactlyOneCallback ==
    \A r \in Runs :
        /\ run[r].cbCount <= 1
        /\ (Started(r) /\ ~(proc = "running" /\ Active(run[r]))) => run[r].cbCount = 1

\* C5: when a run failed and left backupDir and its archive behind, the next
\* run has removed both once its pre-clean tasks are over: backupDir when its
\* second task is reached, the archive when its dump is invoked.
C5_NextRunRemovesLeftovers ==
    \A r \in Runs : \A q \in Runs :
        (/\ q = r + 1
         /\ Solo(r) /\ Solo(q)
         /\ Failed(r) /\ run[r].artAtCb = {"dumpDir", "archive"}) =>
            /\ run[q].step = 2 => dumpDir.state = "absent"
            /\ 3 \in run[q].invoked => ~ArchiveExists(archives, run[r].archiveName)

\* C6: no removal of backupDir is in progress while another run is between
\* the start of its dump and the end of its compression, and every uploaded
\* archive was built from a complete dump written by the uploading run.
C6_NoRemovalUnderAnotherRun ==
    /\ \A r \in Runs : \A q \in Runs \ {r} :
           ~(/\ run[q].pc = "rm" /\ Tasks[run[q].step] = "rmDump"
             /\ run[r].pc \in {"dump", "dumping", "tar"})
    /\ \A r \in Runs : \A a \in run[r].uploaded : a.by = r /\ a.ownComplete

\* C7: with --now, sync is invoked once, no cron job is created, the process
\* exits with code 0 exactly when the terminal callback carried no error, and
\* with code 1 as soon as a task has reported failure.
C7_ImmediateExitCode ==
    optNow =>
        /\ nruns <= 1
        /\ proc # "start" => nruns = 1
        /\ ~cronRegistered
        /\ \A r \in Runs \ {1} : ~Started(r)
        /\ exitCode = 0 <=> Succeeded(1)
        /\ Failed(1) => (proc = "exited" /\ exitCode = 1)
        /\ proc = "exited" => run[1].cbCount = 1

\* C8: in recurring mode the scheduling process keeps running whatever
\* happens to a scheduled run.
C8_SchedulerSurvives ==
    cronRegistered => proc = "running"

\* C9: the crontab handed to the cron job is cron.crontab if set, else the
\* expression derived from cron.time if set, else "0 0 * * *"; the timezone is
\* cron.timezone if set, else America/New_York.
C9_CronPrecedence ==
    cronRegistered =>
        /\ (config.hasCron /\ Truthy(config.crontab)) => crontab = config.crontab
        /\ (config.hasCron /\ ~Truthy(config.crontab) /\ Truthy(config.time)) =>
               crontab = DeriveCrontab(config.time)
        /\ (~config.hasCron \/ (~Truthy(config.crontab) /\ ~Truthy(config.time))) =>
               crontab = Str_0_0_star
        /\ (config.hasCron /\ Truthy(config.timezone)) => timezone = config.timezone
        /\ (~config.hasCron \/ ~Truthy(config.timezone)) => timezone = Str_NewYork

C9_Witness ==
    /\ cronRegistered
    /\ config.crontab = ExplicitCrontab
    /\ config.time = TimeStr(14, 5)
    /\ config.timezone = ExplicitTimezone
    /\ crontab = ExplicitCrontab
    /\ timezone = ExplicitTimezone

\* C10: with only a daily time H:M configured, the cron job's expression has
\* minute field M, hour field H and "*" in the three other fields.
C10_DailyTimeEquivalent ==
    \A h \in Hours : \A m \in Minutes :
        (/\ cronRegistered
         /\ config.hasCron /\ ~Truthy(config.crontab)
         /\ config.time \in {TimeStr(h, m), TimeStrPadded(h, m)}) =>
            /\ CronEveryDay(crontab)
            /\ CronMinute(crontab) = ToStr(m)
            /\ CronHour(crontab) = ToStr(h)

\* C11: friendlyFilesize renders n < 2^10 in B, 2^10 <= n < 2^20 in KiB,
\* 2^20 <= n < 2^30 in MiB, 2^30 <= n < 2^40 in GiB (and n >= 2^40 in TiB),
\* the value being n divided by the size of the unit.  Every size of the
\* model is below 2^31, so below 2^40.
C11_BinaryThresholds ==
    ret # << >> =>
        ret[1] = IF arg = 0 THEN <<"0", " ", "B">>
                 ELSE IF arg < Pow2(10) THEN ToStr(arg) \o <<" ", "B">>
                 ELSE IF arg < Pow2(20) THEN Fixed1(Tenths(arg, 10), "KiB")
                 ELSE IF arg < Pow2(30) THEN Fixed1(Tenths(arg, 20), "MiB")
                 ELSE Fixed1(Tenths(arg, 30), "GiB")

\* C12: the argument list of mongodump carries -u <username> -p <password>
\* exactly when username and password are both set; with only one of them,
\* or none, it holds the three connection options and nothing else.
C12_CredentialsOnlyWhenBoth ==
    ret # << >> =>
        LET argv == ret[1]
            both == Truthy(arg.username) /\ Truthy(arg.password)
        IN  /\ Len(argv) = IF both THEN 10 ELSE 6
            /\ <<argv[1], argv[3], argv[5]>> = <<Str_dash_h, Str_dash_d, Str_dash_o>>
            /\ both => /\ <<argv[7], argv[9]>> = <<Str_dash_u, Str_dash_p>>
                       /\ <<argv[8], argv[10]>> = <<arg.username, arg.password>>

\* a username without a password, and no credential flag in the list
C12_Witness ==
    /\ ret # << >>
    /\ arg.username = <<"s">>
    /\ arg.password = Undefined
    /\ Len(ret[1]) = 6

\* the order in which a run performs its steps
StepOrder == <<"rmDump", "rmArchive", "dump", "compress", "upload", "rmDump", "rmArchive">>

\* C13: within a run the steps are started in the fixed order pre-clean of the
\* dump directory, pre-clean of the archive, dump, compress, upload,
\* post-clean of the dump directory, post-clean of the archive; the steps
\* call back in that order, each at most once; at most one step is started
\* and has not called back, so step k+1 starts only after step k called back.
C13_OneStepAtATimeInOrder ==
    \A r \in Runs :
        LET n == Cardinality(run[r].invoked)
            c == Len(run[r].completed)
        IN  /\ n <= Len(StepOrder)
            /\ run[r].invoked = 1..n
            /\ \A k \in run[r].invoked : Tasks[k] = StepOrder[k]
            /\ run[r].completed = [i \in 1..c |-> i]
            /\ n - c \in {0, 1}
            /\ n - c = 1 <=> run[r].pc \notin {"idle", "done"}

\* a run went through its seven steps one after the other
C13_Witness ==
    \E r \in Runs :
        /\ run[r].invoked = 1..Len(StepOrder)
        /\ run[r].completed = <<1, 2, 3, 4, 5, 6, 7>>
        /\ ~Solo(r)

\* the steps of a run that read or write the dump directory backupDir
OnDumpDir(r) ==
    /\ Active(run[r])
    /\ Tasks[run[r].step] \in {"rmDump", "dump", "compress"}

\* C14: in recurring mode a cron match starts a new run whatever the earlier
\* runs are doing: as long as the scheduler is registered and the process
\* lives, the next match can fire (in the model: until MaxRuns runs started).
C14_NoReentrancyGuard ==
    (proc = "running" /\ cronRegistered /\ nruns < MaxRuns) => ENABLED CronTick

\* two runs active at once, both writing the one dump directory
C14_Witness ==
    \E r, q \in Runs :
        /\ r # q
        /\ OnDumpDir(r) /\ OnDumpDir(q)
        /\ run[r].pc = "dumping" /\ run[q].pc = "dumping"
        /\ cronRegistered

\* the position of a task in the series, and how often a step called back
StepOf(task) == CHOOSE k \in 1..Len(Tasks) : Tasks[k] = task
Callbacks(r, k) == Cardinality({i \in 1..Len(run[r].completed) : run[r].completed[i] = k})

\* C15: the upload step reports success exactly when the response status is
\* 200 and the response stream ended; an error of the transfer is reported
\* without any response event; a status other than 200 is reported as an
\* error carrying that status, and only once the stream ended; in each of
\* these three cases the step calls back exactly once, and never more.
C15_UploadOutcome ==
    \A r \in Runs :
        LET k        == StepOf("upload")
            failed   == run[r].failedAt = k
            success  == Callbacks(r, k) >= 1 /\ ~failed
            noReply  == run[r].status = 0 /\ ~run[r].ended /\ run[r].uploaded = {}
        IN  /\ success <=> (run[r].status = HttpOk /\ run[r].ended)
            /\ (failed /\ run[r].failErr.cause = "putFile") => noReply
            /\ (failed /\ ~noReply) =>
                   /\ run[r].ended
                   /\ run[r].status # HttpOk
                   /\ run[r].failErr = ErrWith(k, "status", run[r].status)
            /\ run[r].pc = "res" => Callbacks(r, k) = 0
            /\ Callbacks(r, k) <= 1
            /\ (run[r].ended \/ failed) => Callbacks(r, k) = 1

\* a response with status 500 ended and the step failed with that status
C15_Witness ==
    \E r \in Runs :
        /\ run[r].failErr = ErrWith(StepOf("upload"), "status", 500)
        /\ run[r].ended
        /\ Callbacks(r, StepOf("upload")) = 1

\* C16: removeRF on a path that does not exist reports success, executes no
\* deletion and changes nothing; on a path that exists it executes the
\* deletion, and if the deletion succeeds the path is gone and success is
\* reported; it reports a failure only if the deletion failed; it touches
\* nothing outside the path.  It is idempotent: after a call that reported
\* success a second call executes nothing, changes nothing and reports
\* success, and whatever two calls in a row leave is what one call can leave.
C16_RemoveIdempotent ==
    ret # << >> =>
        LET once   == ret[1].once
            twice  == ret[1].twice
            exists == arg.target \in arg.fs
        IN  /\ ~exists => once = [fs |-> arg.fs, err |-> NoError, execd |-> FALSE]
            /\ exists => once.execd
            /\ (exists /\ arg.first = "ok") =>
                   (arg.target \notin once.fs /\ once.err = NoError)
            /\ once.err # NoError => (once.execd /\ arg.first # "ok")
            /\ \A p \in arg.fs : ~Under(arg.target, p) => p \in once.fs
            /\ once.fs \subseteq arg.fs
            /\ once.err = NoError =>
                   twice = [fs |-> once.fs, err |-> NoError, execd |-> FALSE]
            /\ \E outcome \in RmOutcomes :
                   removeRF(arg.fs, arg.target, outcome).fs = twice.fs

\* the dump directory and a file in it existed, the first call removed
\* both, and the second call found nothing to remove
C16_Witness ==
    /\ ret # << >>
    /\ {Path_backupDir, Path_dumpFile} \subseteq arg.fs
    /\ arg.target = Path_backupDir
    /\ ret[1].once.execd /\ ret[1].once.err = NoError
    /\ ~ret[1].twice.execd
    /\ ret[1].twice.fs = arg.fs \ {Path_backupDir, Path_dumpFile}

\* step k of run r called back
CalledBack(r, k) == \E i \in DOMAIN run[r].completed : run[r].completed[i] = k

\* C17: the compression step reports success exactly when tar exited with
\* code 0 and fs.stat then called back, whether with stats or with an error
\* (the size logged is then 0); until fs.stat called back the step has not
\* reported; it reports a failure exactly when tar exited with a nonzero
\* code, and then fs.stat is not called.
C17_CompressionOutcome ==
    /\ \A size \in {0, 1536} : StatSize(TRUE, size) = 0 /\ StatSize(FALSE, size) = size
    /\ \A r \in Runs :
        LET k       == StepOf("compress")
            failed  == run[r].failedAt = k
            success == CalledBack(r, k) /\ ~failed
        IN  /\ success <=> (run[r].tarCode = 0 /\ run[r].statDone)
            /\ failed <=> run[r].tarCode \notin {-1, 0}
            /\ failed => /\ ~run[r].statDone
                         /\ run[r].failErr = ErrWith(k, "tar", run[r].tarCode)
            /\ run[r].statDone => run[r].tarCode = 0
            /\ (run[r].tarCode = 0 /\ ~run[r].statDone) =>
                   (~CalledBack(r, k) /\ run[r].pc = "stat")

\* tar exited with code 0, fs.stat called back, and the upload was started
C17_Witness ==
    \E r \in Runs :
        /\ run[r].tarCode = 0 /\ run[r].statDone
        /\ CalledBack(r, StepOf("compress"))
        /\ run[r].pc = "put"

\* run r took a step of its series: it moved on, or one of its tasks called back
Acted(r) ==
    run'[r].pc # run[r].pc \/ run'[r].completed # run[r].completed

\* the archive files of the name of run r
ArchivesOf(ar, r) == {a \in ar : a.name = run[r].archiveName}

\* the runs have distinct archive names, every archive file bears the name
\* of the run that wrote it, and a run uploads only files it wrote
C18_OwnArchivesOnly ==
    /\ \A r \in Runs : \A q \in Runs :
           (Started(r) /\ Started(q) /\ r # q) => run[r].archiveName # run[q].archiveName
    /\ \A a \in archives : \A r \in Runs :
           (Started(r) /\ a.name = run[r].archiveName) <=> a.by = r
    /\ \A r \in Runs : \A a \in run[r].uploaded :
           a.by = r /\ a.name = run[r].archiveName

\* the name of a started run never changes, and an archive file is written,
\* overwritten or removed only in a step of the run that wrote it
C18_OwnArchiveSteps ==
    /\ \A r \in Runs : Started(r) => run'[r].archiveName = run[r].archiveName
    /\ \A a \in archives \ archives' : \E r \in Runs : Acted(r) /\ a.by = r
    /\ \A a \in archives' \ archives : \E r \in Runs : Acted(r) /\ a.by = r

Stuck(r) == proc = "crashed" \/ run[r].pc = "cut"

\* a run whose operations all report completion delivers its callback
C19_RunTerminates ==
    \A r \in Runs : Started(r) ~> (run[r].cbCount = 1 \/ Stuck(r))

\* with --now the process ends
C19_ProcessExits ==
    (optNow /\ proc = "running") ~> (proc = "exited" \/ proc = "crashed")

\* a step that failed ends the run: the run is over and starts nothing again
C19_NoRetry ==
    /\ \A r \in Runs : Failed(r) => (run[r].pc = "done" /\ run[r].cbCount = 1)
    /\ \A r \in Runs : run[r].pc = "done" => run[r].step = 0

\* the step of a run only advances by one, or ends
C19_StepsAdvance ==
    \A r \in Runs : run'[r].step \in {run[r].step, run[r].step + 1, 0}

\* C19: if every operation of a run reports completion, the run eventually
\* delivers its terminal callback; with --now the process eventually ends;
\* no step is started a second time.
C19_Termination ==
    /\ C19_RunTerminates
    /\ C19_ProcessExits
    /\ []C19_NoRetry
    /\ [][C19_StepsAdvance]_vars

\* with --now all seven steps reported, the callback came and the process ended
C19_Witness ==
    /\ optNow
    /\ proc = "exited"
    /\ run[1].cbCount = 1
    /\ Len(run[1].completed) = Len(Tasks)

====
